---- MODULE Spec2Model ----
(***************************************************************************)
(* Clipboard Drop (src/clipboard_drop.py): the clip store (clips.json and  *)
(* the img_<id>.png blob files), its capture / dedup / prune / clear       *)
(* operations, the floating preview window, and the two capture entry      *)
(* points (menu callback and global-hotkey listener thread).               *)
(*                                                                         *)
(* Text is a sequence of characters, image data a sequence of bytes.       *)
(* Python's True / False / None and a raised IndexError are the strings    *)
(* "True", "False", "None", "IndexError".                                  *)
(***************************************************************************)
EXTENDS Integers, Sequences, FiniteSets, TLC

VARIABLES
    clips,            \* contents of clips/clips.json (newest first)
    blobs,            \* files of clips/: filename -> bytes
    settings,         \* settings.json: whether it exists, and its max_clips
    now,              \* int(time.time())
    menu,             \* clip data attached to the menu items
    panel,            \* FloatingWindow._panel is not None
    visible,          \* NSPanel.isVisible()
    current_clip_id,  \* FloatingWindow._current_clip_id
    current_clip,     \* FloatingWindow._current_clip
    html,             \* the document loaded in the web view (SpecCopy)
    pasteboard,       \* NSPasteboard.generalPasteboard() (SpecCopy)
    last,             \* the last call made and what it returned
    prev,             \* store and window as they were before that call
    captured,         \* records inserted since the store was last empty
    sources,          \* for each record of captured, its data (SpecCopy)
    pc,               \* per thread: position inside save_clip
    loc,              \* per thread: locals of save_clip
    written,          \* names of the blob files the thread steps have written
    rt,               \* the last relative_time call: arguments and label
    torn,             \* clips.json exists but is not a whole JSON document
    wpc,              \* position of the handler in save_clips (SpecFail)
    pending,          \* the call in progress and the sequence it writes
    rpc               \* position of the UI thread in render_image_preview

vars == << clips, blobs, settings, now, menu, panel, visible,
           current_clip_id, current_clip, html, pasteboard,
           last, prev, captured, sources, pc, loc, written, rt,
           torn, wpc, pending, rpc >>

winVars   == << panel, visible, current_clip_id, current_clip >>
copyVars  == << html, pasteboard, sources >>
thrVars   == << pc, loc, rpc >>
relVars   == << rt >>
failVars  == << torn, wpc, pending >>

(***************************************************************************)
(* Bounds of the model.                                                    *)
(***************************************************************************)
MaxTime     == 2      \* the clock runs over 1..MaxTime
MaxCaptures == 3      \* records inserted between two empty stores
MaxClips    == 2      \* largest max_clips tried in settings.json
RtWindow    == 2      \* seconds tried on each side of a relative_time boundary
MaxShown    == 2      \* records inserted while the pasteboard is in view
MaxWritten  == 2      \* records in the index when a failing write begins

(***************************************************************************)
(* Program constants.                                                      *)
(***************************************************************************)
DefaultMaxClips == 50
PreviewLen      == 80
NoClipId        == 0      \* _current_clip_id = None (ids are times >= 1)
Minute          == 60
Hour            == 3600
Day             == 86400
TwoDays         == 172800

None == [type |-> "None"]

Texts  == { <<"a">>, <<"b">> }
\* 137 is the first byte of the PNG signature.
Images == { <<137>>, <<0>>, <<137, 0>> }

\* settings.json: absent, or present with an integer max_clips.
NoSettingsFile == [exists |-> FALSE, max_clips |-> 0]

SettingsChoices ==
    {NoSettingsFile} \cup
    { [exists |-> TRUE, max_clips |-> n] : n \in {0 - 1} \cup (0 .. MaxClips) }

Threads == {"menu", "hotkey"}

Min(a, b) == IF a < b THEN a ELSE b

(***************************************************************************)
(* load_settings / settings.get("max_clips", 50)                           *)
(***************************************************************************)
LoadSettings(s) == IF s.exists THEN s.max_clips ELSE DefaultMaxClips

(***************************************************************************)
(* File helpers on the blob directory.                                     *)
(***************************************************************************)
Filename(ts) == << "img_", ts, ".png" >>

Exists(bl, fn) == fn \in DOMAIN bl

WriteBytes(bl, fn, data) ==
    [f \in (DOMAIN bl) \cup {fn} |-> IF f = fn THEN data ELSE bl[f]]

Unlink(bl, fn) == [f \in (DOMAIN bl) \ {fn} |-> bl[f]]

NoFiles == [f \in {} |-> << >>]

(***************************************************************************)
(* Preview strings.                                                        *)
(***************************************************************************)
TextPreview(data) ==
    [i \in 1 .. Min(PreviewLen, Len(data)) |->
        IF data[i] = "\n" THEN " " ELSE data[i]]

\* NSBitmapImageRep decodes the data or returns nil; the WxH text of a
\* decoded image is not modelled.
ImagePreview(data) ==
    IF Len(data) > 0 /\ data[1] = 137 THEN "Screenshot" ELSE "Image"

TextClip(ts, data) ==
    [id |-> ts, type |-> "text", content |-> data, timestamp |-> ts,
     preview |-> TextPreview(data)]

ImageClip(ts, data) ==
    [id |-> ts, type |-> "image", filename |-> Filename(ts),
     timestamp |-> ts, preview |-> ImagePreview(data)]

(***************************************************************************)
(* save_clip: duplicate detection against clips[0].                        *)
(***************************************************************************)
\* Variant: a text capture is compared with every record, not the head only.
IsDuplicateAnywhere(cl, bl, kind, data) ==
    IF kind = "text"
    THEN \E i \in DOMAIN cl : cl[i].type = "text" /\ cl[i].content = data
    ELSE /\ cl # << >>
         /\ cl[1].type = "image"
         /\ Exists(bl, cl[1].filename)
         /\ Len(bl[cl[1].filename]) = Len(data)

\* Variant: an image capture is compared with the head's blob by content.
IsDuplicateByContent(cl, bl, kind, data) ==
    IF kind = "text"
    THEN cl # << >> /\ cl[1].type = "text" /\ cl[1].content = data
    ELSE /\ cl # << >>
         /\ cl[1].type = "image"
         /\ Exists(bl, cl[1].filename)
         /\ bl[cl[1].filename] = data

\* Variant: text captures are never suppressed.
IsDuplicateImagesOnly(cl, bl, kind, data) ==
    /\ kind = "image"
    /\ cl # << >>
    /\ cl[1].type = "image"
    /\ Exists(bl, cl[1].filename)
    /\ Len(bl[cl[1].filename]) = Len(data)

IsDuplicate(cl, bl, kind, data) ==
    IF kind = "text"
    THEN cl # << >> /\ cl[1].type = "text" /\ cl[1].content = data
    ELSE /\ cl # << >>
         /\ cl[1].type = "image"
         /\ Exists(bl, cl[1].filename)
         /\ Len(bl[cl[1].filename]) = Len(data)

(***************************************************************************)
(* save_clip: build the record, write the blob, insert at the head.        *)
(***************************************************************************)
\* Variant: the Image record is linked without its blob file being written.
InsertNoWrite(cl, bl, ts, kind, data) ==
    IF kind = "text"
    THEN [clips |-> << TextClip(ts, data) >> \o cl, blobs |-> bl]
    ELSE [clips |-> << ImageClip(ts, data) >> \o cl, blobs |-> bl]

Insert(cl, bl, ts, kind, data) ==
    IF kind = "text"
    THEN [clips |-> << TextClip(ts, data) >> \o cl, blobs |-> bl]
    ELSE [clips |-> << ImageClip(ts, data) >> \o cl,
          blobs |-> WriteBytes(bl, Filename(ts), data)]

(***************************************************************************)
(* save_clip: the auto-prune loop.  clips.pop() on an empty list raises    *)
(* IndexError, which happens when max_clips is negative.                   *)
(***************************************************************************)
\* Variant: the loop stops one record too early.
RECURSIVE PruneOffByOne(_, _, _)
PruneOffByOne(cl, bl, max) ==
    IF Len(cl) > max + 1
    THEN IF cl = << >>
         THEN [clips |-> cl, blobs |-> bl, raised |-> TRUE]
         ELSE LET removed == cl[Len(cl)]
                  rest    == SubSeq(cl, 1, Len(cl) - 1)
              IN  IF removed.type = "image" /\ Exists(bl, removed.filename)
                  THEN PruneOffByOne(rest, Unlink(bl, removed.filename), max)
                  ELSE PruneOffByOne(rest, bl, max)
    ELSE [clips |-> cl, blobs |-> bl, raised |-> FALSE]

\* Variant: evicted image records keep their blob file.
RECURSIVE PruneKeepBlobs(_, _, _)
PruneKeepBlobs(cl, bl, max) ==
    IF Len(cl) > max
    THEN IF cl = << >>
         THEN [clips |-> cl, blobs |-> bl, raised |-> TRUE]
         ELSE PruneKeepBlobs(SubSeq(cl, 1, Len(cl) - 1), bl, max)
    ELSE [clips |-> cl, blobs |-> bl, raised |-> FALSE]

RECURSIVE Prune(_, _, _)
Prune(cl, bl, max) ==
    IF Len(cl) > max
    THEN IF cl = << >>
         THEN [clips |-> cl, blobs |-> bl, raised |-> TRUE]
         ELSE LET removed == cl[Len(cl)]
                  rest    == SubSeq(cl, 1, Len(cl) - 1)
              IN  IF removed.type = "image" /\ Exists(bl, removed.filename)
                  THEN Prune(rest, Unlink(bl, removed.filename), max)
                  ELSE Prune(rest, bl, max)
    ELSE [clips |-> cl, blobs |-> bl, raised |-> FALSE]

(***************************************************************************)
(* save_clip as a whole: the index and blob files it leaves behind and     *)
(* what it returns.                                                        *)
(***************************************************************************)
\* Variant: the blob file is written before the duplicate check.
SaveClipWriteFirst(cl, bl, s, ts, kind, data) ==
    LET bl0 == IF kind = "image" THEN WriteBytes(bl, Filename(ts), data) ELSE bl
    IN  IF IsDuplicate(cl, bl0, kind, data)
        THEN [clips |-> cl, blobs |-> bl0, ret |-> "False"]
        ELSE LET ins == Insert(cl, bl0, ts, kind, data)
                 pr  == Prune(ins.clips, ins.blobs, LoadSettings(s))
             IN  IF pr.raised
                 THEN [clips |-> cl, blobs |-> pr.blobs, ret |-> "IndexError"]
                 ELSE [clips |-> pr.clips, blobs |-> pr.blobs, ret |-> "True"]

SaveClip(cl, bl, s, ts, kind, data) ==
    IF IsDuplicate(cl, bl, kind, data)
    THEN [clips |-> cl, blobs |-> bl, ret |-> "False"]
    ELSE LET ins == Insert(cl, bl, ts, kind, data)
             pr  == Prune(ins.clips, ins.blobs, LoadSettings(s))
         IN  IF pr.raised
             THEN [clips |-> cl, blobs |-> pr.blobs, ret |-> "IndexError"]
             ELSE [clips |-> pr.clips, blobs |-> pr.blobs, ret |-> "True"]

(***************************************************************************)
(* clear_all_clips                                                         *)
(***************************************************************************)
RECURSIVE UnlinkAll(_, _)
UnlinkAll(cl, bl) ==
    IF cl = << >>
    THEN bl
    ELSE IF cl[1].type = "image" /\ Exists(bl, cl[1].filename)
         THEN UnlinkAll(Tail(cl), Unlink(bl, cl[1].filename))
         ELSE UnlinkAll(Tail(cl), bl)

\* Variant: the index is emptied and the blob files are left behind.
ClearIndexOnly(cl, bl) == [clips |-> << >>, blobs |-> bl]

ClearAllClips(cl, bl) == [clips |-> << >>, blobs |-> UnlinkAll(cl, bl)]

(***************************************************************************)
(* render_text_preview / render_image_preview.  A document is a record of  *)
(* what the template is filled with; only the documents of kind "text"     *)
(* and "image" carry the Copy button.                                      *)
(***************************************************************************)
\* html.escape
EscapeChar(c) ==
    IF c = "&" THEN "&amp;"
    ELSE IF c = "<" THEN "&lt;"
    ELSE IF c = ">" THEN "&gt;"
    ELSE IF c = "\"" THEN "&quot;"
    ELSE IF c = "'" THEN "&#x27;"
    ELSE c

Escape(text) == [i \in 1 .. Len(text) |-> EscapeChar(text[i])]

RenderTextPreview(text, timestamp) ==
    [doc |-> "text", body |-> Escape(text), time |-> timestamp]

\* base64.b64encode is kept as a tag on the bytes it encodes.
B64(bytes) == << "base64", bytes >>

\* Variant: the file is read without the exists() test.
RenderImagePreviewNoTest(bl, filename, timestamp) ==
    IF Exists(bl, filename)
    THEN [doc |-> "image", body |-> B64(bl[filename]), time |-> timestamp]
    ELSE [doc |-> "FileNotFoundError", body |-> filename, time |-> 0]

RenderImagePreview(bl, filename, timestamp) ==
    IF ~Exists(bl, filename)
    THEN [doc |-> "not_found", body |-> filename, time |-> 0]
    ELSE [doc |-> "image", body |-> B64(bl[filename]), time |-> timestamp]

NoDocument == [doc |-> "none", body |-> << >>, time |-> 0]

HasCopyButton(d) == d.doc \in {"text", "image"}

(***************************************************************************)
(* The general pasteboard and the copy message handler.                    *)
(***************************************************************************)
NoContents == [type |-> "none", data |-> << >>]

\* What another application leaves on the pasteboard: a string or PNG data.
Contents(kind, data) ==
    IF kind = "text"
    THEN [type |-> "string", data |-> data]
    ELSE [type |-> "png", data |-> data]

\* userContentController_didReceiveScriptMessage_: the pasteboard it leaves.
CopyClip(pb, bl, clip) ==
    IF clip = None
    THEN pb
    ELSE IF clip.type = "text"
         THEN [type |-> "string", data |-> clip.content]
         ELSE IF clip.type = "image" /\ Exists(bl, clip.filename)
              THEN [type |-> "png", data |-> bl[clip.filename]]
              ELSE NoContents

(***************************************************************************)
(* FloatingWindow                                                          *)
(***************************************************************************)
\* Variant: the record is cached when the panel is created and not replaced.
ShowClipKeepRecord(clip) ==
    /\ panel' = TRUE
    /\ current_clip_id' = clip.id
    /\ current_clip' = IF panel THEN current_clip ELSE clip
    /\ visible' = TRUE

ShowClip(clip) ==
    /\ panel' = TRUE
    /\ current_clip_id' = clip.id
    /\ current_clip' = clip
    /\ visible' = TRUE

\* show_clip: the document handed to loadHTMLString_baseURL_.
Document(bl, clip) ==
    IF clip.type = "text"
    THEN RenderTextPreview(clip.content, clip.timestamp)
    ELSE RenderImagePreview(bl, clip.filename, clip.timestamp)

Hide ==
    /\ visible' = IF panel THEN FALSE ELSE visible
    /\ UNCHANGED << panel, current_clip_id, current_clip >>

\* Variant: a visible panel is hidden whichever clip is clicked.
ToggleClipIgnoreId(clip) ==
    IF panel /\ visible
    THEN Hide
    ELSE ShowClip(clip)

ToggleClip(clip) ==
    IF panel /\ visible /\ current_clip_id = clip.id
    THEN Hide
    ELSE ShowClip(clip)

(***************************************************************************)
(* relative_time.  A label is the tuple of the parts the f-string joins.   *)
(* int(diff / n) truncates; diff is at least n where it is used, so it is  *)
(* the integer quotient.                                                   *)
(***************************************************************************)
\* Variant: exactly 60 seconds still counts as "just now".
RelativeTimeInclusive(nowv, timestamp) ==
    LET diff == nowv - timestamp
    IN  IF diff <= Minute THEN << "just now" >>
        ELSE IF diff < Hour THEN << diff \div Minute, " min ago" >>
        ELSE IF diff < Day
             THEN << diff \div Hour, " hr",
                     IF diff \div Hour > 1 THEN "s" ELSE "", " ago" >>
        ELSE IF diff < TwoDays THEN << "yesterday" >>
        ELSE << diff \div Day, " days ago" >>

RelativeTime(nowv, timestamp) ==
    LET diff == nowv - timestamp
    IN  IF diff < Minute THEN << "just now" >>
        ELSE IF diff < Hour THEN << diff \div Minute, " min ago" >>
        ELSE IF diff < Day
             THEN << diff \div Hour, " hr",
                     IF diff \div Hour > 1 THEN "s" ELSE "", " ago" >>
        ELSE IF diff < TwoDays THEN << "yesterday" >>
        ELSE << diff \div Day, " days ago" >>

NoLabel == [timestamp |-> 0, now |-> 0, label |-> << >>]

\* Ages tried: around every bucket boundary, and around one multiple of
\* each unit inside its bucket.
Boundaries == {0, Minute, 2 * Minute, Hour, 2 * Hour, Day, TwoDays, 3 * Day}

Ages == UNION { (b - RtWindow) .. (b + RtWindow) : b \in Boundaries }

(***************************************************************************)
(* Initial state: no clips directory content, the app just constructed.    *)
(***************************************************************************)
NoLoc == [kind |-> "none"]

NoPending == [op |-> "none"]

Call(op, kind, data, ret) == [op |-> op, kind |-> kind, data |-> data, ret |-> ret]

Before == [clips |-> clips, blobs |-> blobs, visible |-> visible,
           current_clip_id |-> current_clip_id, pasteboard |-> pasteboard,
           torn |-> torn]

Init ==
    /\ clips = << >>
    /\ blobs = NoFiles
    /\ settings \in SettingsChoices
    /\ now = 1
    /\ menu = << >>
    /\ panel = FALSE
    /\ visible = FALSE
    /\ current_clip_id = NoClipId
    /\ current_clip = None
    /\ html = NoDocument
    /\ pasteboard = NoContents
    /\ last = Call("init", "none", << >>, "None")
    /\ prev = [clips |-> << >>, blobs |-> NoFiles, visible |-> FALSE,
               current_clip_id |-> NoClipId, pasteboard |-> NoContents,
               torn |-> FALSE]
    /\ captured = << >>
    /\ sources = << >>
    /\ pc = [t \in Threads |-> "idle"]
    /\ loc = [t \in Threads |-> NoLoc]
    /\ written = {}
    /\ rt = NoLabel
    /\ torn = FALSE
    /\ wpc = "idle"
    /\ pending = NoPending
    /\ rpc = "idle"

(***************************************************************************)
(* The clock advances.                                                     *)
(***************************************************************************)
Tick ==
    /\ now < MaxTime
    /\ now' = now + 1
    /\ UNCHANGED << clips, blobs, settings, menu, last, prev, captured >>
    /\ UNCHANGED winVars
    /\ UNCHANGED copyVars
    /\ UNCHANGED thrVars
    /\ UNCHANGED written
    /\ UNCHANGED relVars
    /\ UNCHANGED failVars

(***************************************************************************)
(* _on_save_clipboard, run to completion on one thread.  Capture is the    *)
(* handler on the store and the menu; OnSaveClipboard is the handler where *)
(* document and pasteboard are out of view (no handler of Spec reads       *)
(* them), CopyAndCapture below the one where they are in view.             *)
(***************************************************************************)
Capture(kind, data) ==
    LET r == SaveClip(clips, blobs, settings, now, kind, data)
    IN  /\ Len(captured) < MaxCaptures
        /\ clips' = r.clips
        /\ blobs' = r.blobs
        /\ last' = Call("save", kind, data, r.ret)
        /\ prev' = Before
        /\ captured' = IF r.ret = "True"
                       THEN << Insert(clips, blobs, now, kind, data).clips[1] >>
                                \o captured
                       ELSE captured
        /\ menu' = IF r.ret = "IndexError" THEN menu ELSE r.clips
        /\ UNCHANGED << settings, now >>
        /\ UNCHANGED winVars
        /\ UNCHANGED thrVars
        /\ UNCHANGED written
        /\ UNCHANGED relVars
        /\ UNCHANGED failVars

OnSaveClipboard(kind, data) ==
    /\ Capture(kind, data)
    /\ UNCHANGED copyVars

\* read_clipboard returned (None, None): only a notification.
OnSaveClipboardEmpty ==
    /\ last' = Call("empty", "none", << >>, "None")
    /\ prev' = Before
    /\ UNCHANGED copyVars
    /\ UNCHANGED << clips, blobs, settings, now, menu, captured >>
    /\ UNCHANGED winVars
    /\ UNCHANGED thrVars
    /\ UNCHANGED written
    /\ UNCHANGED relVars
    /\ UNCHANGED failVars

(***************************************************************************)
(* _on_clear_all                                                           *)
(***************************************************************************)
OnClearAll ==
    LET r == ClearAllClips(clips, blobs)
    IN  /\ clips' = r.clips
        /\ blobs' = r.blobs
        /\ Hide
        /\ menu' = r.clips
        /\ last' = Call("clear", "none", << >>, "None")
        /\ prev' = Before
        /\ captured' = << >>
        /\ UNCHANGED copyVars
        /\ UNCHANGED << settings, now >>
        /\ UNCHANGED thrVars
    /\ UNCHANGED written
    /\ UNCHANGED relVars
    /\ UNCHANGED failVars

(***************************************************************************)
(* _on_clip_click and the panel delegate's cancelOperation_                *)
(***************************************************************************)
Click(i) ==
    /\ i \in DOMAIN menu
    /\ ToggleClip(menu[i])
    /\ last' = Call("toggle", "none", menu[i], "None")
    /\ prev' = Before
    /\ UNCHANGED << clips, blobs, settings, now, menu, captured >>
    /\ UNCHANGED thrVars
    /\ UNCHANGED written
    /\ UNCHANGED relVars
    /\ UNCHANGED failVars

OnClipClick(i) ==
    /\ Click(i)
    /\ UNCHANGED copyVars

CancelOperation ==
    /\ panel
    /\ Hide
    /\ last' = Call("cancel", "none", << >>, "None")
    /\ prev' = Before
    /\ UNCHANGED << clips, blobs, settings, now, menu, captured >>
    /\ UNCHANGED copyVars
    /\ UNCHANGED thrVars
    /\ UNCHANGED written
    /\ UNCHANGED relVars
    /\ UNCHANGED failVars

\* _CopyMessageHandler: the Copy button of the shown document was pressed.
\* The window is left alone, and so is what last and prev say about it: last
\* carries the call before the message and prev the window before that call.
OnCopyMessage ==
    /\ panel
    /\ visible
    /\ HasCopyButton(html)
    /\ pasteboard' = CopyClip(pasteboard, blobs, current_clip)
    /\ last' = Call("copy", last.op, last.data, "None")
    /\ prev' = [prev EXCEPT !.clips = clips, !.blobs = blobs,
                            !.pasteboard = pasteboard]
    /\ UNCHANGED << clips, blobs, settings, now, menu, captured, sources,
                    html >>
    /\ UNCHANGED winVars
    /\ UNCHANGED written
    /\ UNCHANGED thrVars
    /\ UNCHANGED relVars
    /\ UNCHANGED failVars

Next ==
    \/ Tick
    \/ \E d \in Texts : OnSaveClipboard("text", d)
    \/ \E d \in Images : OnSaveClipboard("image", d)
    \/ OnSaveClipboardEmpty
    \/ OnClearAll
    \/ \E i \in 1 .. MaxCaptures : OnClipClick(i)
    \/ CancelOperation

Spec == Init /\ [][Next]_vars

(***************************************************************************)
(* The two capture entry points as threads.  The menu callback runs on the *)
(* main thread, on_save on the pynput GlobalHotKeys listener thread; both  *)
(* call _on_save_clipboard and no lock is taken anywhere.  Each thread     *)
(* makes one capture, in the steps of save_clip that touch the disk.       *)
(***************************************************************************)
InSection == {"check", "prune", "persist"}

\* clips = load_clips(); settings = load_settings(); ts = int(time.time())
TLoad(t, kind, data) ==
    /\ pc[t] = "idle"
    /\ pc' = [pc EXCEPT ![t] = "check"]
    /\ loc' = [loc EXCEPT ![t] =
                 [kind |-> kind, data |-> data, clips |-> clips,
                  max |-> LoadSettings(settings), ts |-> now, ret |-> "None"]]
    /\ UNCHANGED << clips, blobs, settings, now, menu, last, prev, captured >>
    /\ UNCHANGED copyVars
    /\ UNCHANGED winVars
    /\ UNCHANGED written
    /\ UNCHANGED relVars
    /\ UNCHANGED failVars
    /\ UNCHANGED rpc

\* duplicate check; blob write and insert at the head of the local list
TMutate(t) ==
    /\ pc[t] = "check"
    /\ IF IsDuplicate(loc[t].clips, blobs, loc[t].kind, loc[t].data)
       THEN /\ pc' = [pc EXCEPT ![t] = "return"]
            /\ loc' = [loc EXCEPT ![t].ret = "False"]
            /\ UNCHANGED blobs
       ELSE LET ins == Insert(loc[t].clips, blobs, loc[t].ts,
                              loc[t].kind, loc[t].data)
            IN  /\ pc' = [pc EXCEPT ![t] = "prune"]
                /\ loc' = [loc EXCEPT ![t].clips = ins.clips]
                /\ blobs' = ins.blobs
    /\ written' = written \cup DOMAIN blobs'
    /\ UNCHANGED << clips, settings, now, menu, last, prev, captured >>
    /\ UNCHANGED copyVars
    /\ UNCHANGED winVars
    /\ UNCHANGED relVars
    /\ UNCHANGED failVars
    /\ UNCHANGED rpc

\* the auto-prune loop on the local list
TPrune(t) ==
    /\ pc[t] = "prune"
    /\ LET pr == Prune(loc[t].clips, blobs, loc[t].max)
       IN  /\ blobs' = pr.blobs
           /\ IF pr.raised
              THEN /\ pc' = [pc EXCEPT ![t] = "return"]
                   /\ loc' = [loc EXCEPT ![t].ret = "IndexError"]
              ELSE /\ pc' = [pc EXCEPT ![t] = "persist"]
                   /\ loc' = [loc EXCEPT ![t].clips = pr.clips]
    /\ UNCHANGED << clips, settings, now, menu, last, prev, captured >>
    /\ UNCHANGED copyVars
    /\ UNCHANGED winVars
    /\ UNCHANGED written
    /\ UNCHANGED relVars
    /\ UNCHANGED failVars
    /\ UNCHANGED rpc

\* save_clips(clips); return True
TPersist(t) ==
    /\ pc[t] = "persist"
    /\ clips' = loc[t].clips
    /\ pc' = [pc EXCEPT ![t] = "return"]
    /\ loc' = [loc EXCEPT ![t].ret = "True"]
    /\ UNCHANGED << blobs, settings, now, menu, last, prev, captured >>
    /\ UNCHANGED copyVars
    /\ UNCHANGED winVars
    /\ UNCHANGED written
    /\ UNCHANGED relVars
    /\ UNCHANGED failVars
    /\ UNCHANGED rpc

\* back in _on_save_clipboard: notification and self._build_menu()
TReturn(t) ==
    /\ pc[t] = "return"
    /\ pc' = [pc EXCEPT ![t] = "done"]
    /\ menu' = IF loc[t].ret = "IndexError" THEN menu ELSE clips
    /\ UNCHANGED << clips, blobs, settings, now, last, prev, captured, loc >>
    /\ UNCHANGED copyVars
    /\ UNCHANGED winVars
    /\ UNCHANGED written
    /\ UNCHANGED relVars
    /\ UNCHANGED failVars
    /\ UNCHANGED rpc

NextConc ==
    \/ Tick
    \/ \E t \in Threads : \E d \in Texts : TLoad(t, "text", d)
    \/ \E t \in Threads : \E d \in Images : TLoad(t, "image", d)
    \/ \E t \in Threads : TMutate(t)
    \/ \E t \in Threads : TPrune(t)
    \/ \E t \in Threads : TPersist(t)
    \/ \E t \in Threads : TReturn(t)

SpecConc == Init /\ [][NextConc]_vars

(***************************************************************************)
(* Capture, preview and copy-back with document and pasteboard in view.    *)
(* Another application puts data on the pasteboard and the capture reads   *)
(* it; a click loads the document of the clip it shows; the Copy button    *)
(* of the document writes the clip back.                                   *)
(***************************************************************************)
CopyAndCapture(kind, data) ==
    /\ Len(captured) < MaxShown
    /\ Capture(kind, data)
    /\ pasteboard' = Contents(kind, data)
    /\ sources' = IF last'.ret = "True" THEN << data >> \o sources ELSE sources
    /\ UNCHANGED html

PreviewClip(i) ==
    /\ Click(i)
    /\ html' = IF visible' THEN Document(blobs, menu[i]) ELSE html
    /\ UNCHANGED << pasteboard, sources >>

NextCopy ==
    \/ Tick
    \/ \E d \in Texts : CopyAndCapture("text", d)
    \/ \E d \in Images : CopyAndCapture("image", d)
    \/ \E i \in 1 .. MaxShown : PreviewClip(i)
    \/ OnCopyMessage

SpecCopy == Init /\ [][NextCopy]_vars

(***************************************************************************)
(* A click on the main thread while the hotkey thread makes a capture.     *)
(* render_image_preview tests img_path.exists() and then reads the file:   *)
(* the two are separate steps, and the capture's prune may unlink the file *)
(* between them.  _on_clear_all is a menu callback and runs on the main    *)
(* thread like the click, so it never runs during a render.                *)
(***************************************************************************)
\* A capture from the menu, before the hotkey is pressed.
MainCapture(kind, data) ==
    /\ rpc = "idle"
    /\ pc["hotkey"] = "idle"
    /\ Len(captured) < MaxShown
    /\ OnSaveClipboard(kind, data)

\* toggle_clip up to the exists() test of render_image_preview.
RClick(i) ==
    /\ rpc = "idle"
    /\ i \in DOMAIN menu
    /\ prev' = Before
    /\ IF panel /\ visible /\ current_clip_id = menu[i].id
       THEN /\ Hide
            /\ last' = Call("toggle", "none", menu[i], "None")
            /\ UNCHANGED << html, rpc >>
       ELSE /\ panel' = TRUE
            /\ current_clip_id' = menu[i].id
            /\ current_clip' = menu[i]
            /\ IF menu[i].type = "image" /\ Exists(blobs, menu[i].filename)
               THEN /\ rpc' = "read"
                    /\ UNCHANGED << visible, html, last >>
               ELSE /\ html' = Document(blobs, menu[i])
                    /\ visible' = TRUE
                    /\ last' = Call("toggle", "none", menu[i], "None")
                    /\ UNCHANGED rpc
    /\ UNCHANGED << clips, blobs, settings, now, menu, captured >>
    /\ UNCHANGED << pasteboard, sources, pc, loc >>
    /\ UNCHANGED written
    /\ UNCHANGED relVars
    /\ UNCHANGED failVars

\* img_path.read_bytes(), then the document is loaded and the panel shown.
RRead ==
    /\ rpc = "read"
    /\ rpc' = "idle"
    /\ IF Exists(blobs, current_clip.filename)
       THEN /\ html' = Document(blobs, current_clip)
            /\ visible' = TRUE
            /\ last' = Call("toggle", "none", current_clip, "None")
       ELSE /\ last' = Call("toggle", "none", current_clip, "FileNotFoundError")
            /\ UNCHANGED << html, visible >>
    /\ UNCHANGED << clips, blobs, settings, now, menu, prev, captured >>
    /\ UNCHANGED << panel, current_clip_id, current_clip >>
    /\ UNCHANGED << pasteboard, sources, pc, loc >>
    /\ UNCHANGED written
    /\ UNCHANGED relVars
    /\ UNCHANGED failVars

\* The race needs no second to pass: the clock stands still here.
NextRender ==
    \/ \E d \in Texts : MainCapture("text", d)
    \/ \E d \in Images : MainCapture("image", d)
    \/ \E d \in Texts : TLoad("hotkey", "text", d)
    \/ \E d \in Images : TLoad("hotkey", "image", d)
    \/ TMutate("hotkey")
    \/ TPrune("hotkey")
    \/ TPersist("hotkey")
    \/ TReturn("hotkey")
    \/ \E i \in 1 .. MaxShown : RClick(i)
    \/ RRead

SpecRender == Init /\ [][NextRender]_vars

(***************************************************************************)
(* The index file under write failures.  save_clips opens clips.json with  *)
(* mode "w", which truncates it, and json.dump then writes the document    *)
(* piece by piece; the write can fail (OSError) or the process can be      *)
(* stopped at any of these points.  While torn, clips holds the records    *)
(* whose text has reached the file.                                        *)
(***************************************************************************)
\* Variant: an unparsable index is read as an empty history.
LoadClipsLenient(tn, cl) ==
    [ret |-> "ok", clips |-> IF tn THEN << >> ELSE cl]

\* load_clips: json.load raises on a file that is not a whole document.
LoadClips(tn, cl) ==
    IF tn
    THEN [ret |-> "JSONDecodeError", clips |-> << >>]
    ELSE [ret |-> "ok", clips |-> cl]

\* The handler ends: last and prev describe the whole call.
Finish(op, kind, data, ret, before) ==
    /\ last' = Call(op, kind, data, ret)
    /\ prev' = before
    /\ wpc' = "idle"
    /\ pending' = NoPending

\* _on_save_clipboard up to the call of save_clips.
FSave(kind, data) ==
    LET l == LoadClips(torn, clips)
        r == SaveClip(l.clips, blobs, settings, now, kind, data)
    IN  /\ wpc = "idle"
        /\ Len(clips) < MaxWritten
        /\ IF l.ret # "ok"
           THEN /\ Finish("save", kind, data, l.ret, Before)
                /\ UNCHANGED blobs
           ELSE IF r.ret # "True"
           THEN /\ Finish("save", kind, data, r.ret, Before)
                /\ blobs' = r.blobs
           ELSE /\ blobs' = r.blobs
                /\ wpc' = "open"
                /\ pending' = [op |-> "save", kind |-> kind, data |-> data,
                               clips |-> r.clips, before |-> Before]
                /\ UNCHANGED << last, prev >>
        /\ UNCHANGED << clips, torn, settings, now, menu, captured >>
        /\ UNCHANGED winVars
        /\ UNCHANGED copyVars
        /\ UNCHANGED thrVars
        /\ UNCHANGED written
        /\ UNCHANGED relVars

\* _on_clear_all up to the call of save_clips.
FClear ==
    LET l == LoadClips(torn, clips)
    IN  /\ wpc = "idle"
        /\ IF l.ret # "ok"
           THEN /\ Finish("clear", "none", << >>, l.ret, Before)
                /\ UNCHANGED blobs
           ELSE /\ blobs' = ClearAllClips(l.clips, blobs).blobs
                /\ wpc' = "open"
                /\ pending' = [op |-> "clear", kind |-> "none", data |-> << >>,
                               clips |-> << >>, before |-> Before]
                /\ UNCHANGED << last, prev >>
        /\ UNCHANGED << clips, torn, settings, now, menu, captured >>
        /\ UNCHANGED winVars
        /\ UNCHANGED copyVars
        /\ UNCHANGED thrVars
        /\ UNCHANGED written
        /\ UNCHANGED relVars

\* open(CLIPS_JSON, "w"): the file is truncated to nothing.
FOpen ==
    /\ wpc = "open"
    /\ wpc' = "dump"
    /\ torn' = TRUE
    /\ clips' = << >>
    /\ UNCHANGED << blobs, settings, now, menu, last, prev, captured, pending >>
    /\ UNCHANGED winVars
    /\ UNCHANGED copyVars
    /\ UNCHANGED thrVars
    /\ UNCHANGED written
    /\ UNCHANGED relVars

\* json.dump: the text of one more record reaches the file.
FDump ==
    /\ wpc = "dump"
    /\ Len(clips) < Len(pending.clips)
    /\ clips' = SubSeq(pending.clips, 1, Len(clips) + 1)
    /\ UNCHANGED << blobs, settings, now, menu, last, prev, captured >>
    /\ UNCHANGED failVars
    /\ UNCHANGED winVars
    /\ UNCHANGED copyVars
    /\ UNCHANGED thrVars
    /\ UNCHANGED written
    /\ UNCHANGED relVars

\* The document is closed and the file left whole; the handler goes on to
\* hide the window (clear) and to rebuild the menu.
FClose ==
    /\ wpc = "dump"
    /\ Len(clips) = Len(pending.clips)
    /\ torn' = FALSE
    /\ menu' = clips
    /\ IF pending.op = "clear" THEN Hide ELSE UNCHANGED winVars
    /\ Finish(pending.op, pending.kind, pending.data,
              IF pending.op = "save" THEN "True" ELSE "None", pending.before)
    /\ UNCHANGED << clips, blobs, settings, now, captured >>
    /\ UNCHANGED copyVars
    /\ UNCHANGED thrVars
    /\ UNCHANGED written
    /\ UNCHANGED relVars

\* open or a write raises OSError, or the handler is stopped there.
FFail ==
    /\ wpc \in {"open", "dump"}
    /\ Finish(pending.op, pending.kind, pending.data, "OSError",
              pending.before)
    /\ UNCHANGED << clips, blobs, torn, settings, now, menu, captured >>
    /\ UNCHANGED winVars
    /\ UNCHANGED copyVars
    /\ UNCHANGED thrVars
    /\ UNCHANGED written
    /\ UNCHANGED relVars

\* The clock plays no part in the write of the index: it stands still here.
NextFail ==
    \/ \E d \in Texts : FSave("text", d)
    \/ \E d \in Images : FSave("image", d)
    \/ FClear
    \/ FOpen
    \/ FDump
    \/ FClose
    \/ FFail

SpecFail == Init /\ [][NextFail]_vars

(***************************************************************************)
(* _build_menu labelling a clip: relative_time(clip["timestamp"]) at some  *)
(* later reading of the clock.                                             *)
(***************************************************************************)
LabelClip(timestamp, age) ==
    /\ rt' = [timestamp |-> timestamp, now |-> timestamp + age,
              label |-> RelativeTime(timestamp + age, timestamp)]
    /\ UNCHANGED << clips, blobs, settings, now, menu, last, prev, captured >>
    /\ UNCHANGED winVars
    /\ UNCHANGED written
    /\ UNCHANGED copyVars
    /\ UNCHANGED thrVars
    /\ UNCHANGED failVars

NextTime == \E ts \in 1 .. MaxTime : \E age \in Ages : LabelClip(ts, age)

SpecTime == Init /\ [][NextTime]_vars

TypeOK ==
    /\ now \in 1 .. MaxTime
    /\ Len(clips) <= MaxCaptures

(***************************************************************************)
(* Properties of the clip store.                                           *)
(***************************************************************************)
max_clips == LoadSettings(settings)

IsImage(r) == r.type = "image"

HeadIsText(cl, d) == cl # << >> /\ cl[1].type = "text" /\ cl[1].content = d

HeadBlobHasLen(cl, bl, n) ==
    /\ cl # << >>
    /\ cl[1].type = "image"
    /\ cl[1].filename \in DOMAIN bl
    /\ Len(bl[cl[1].filename]) = n

\* C1 as stated: once a capture or a clear has run to completion, the
\* persisted sequence is no longer than max_clips, for every integer
\* max_clips.
C1_Original ==
    (last.op \in {"save", "clear"} /\ last.ret # "IndexError")
        => Len(clips) <= max_clips

\* C1 as amended: for every non-negative max_clips the persisted sequence is
\* never longer than max_clips, whatever captures (saved or Duplicate) and
\* clears have run.
C1_Bounded == max_clips >= 0 => Len(clips) <= max_clips

\* A Duplicate capture on a full store that has already evicted a record.
C1_Witness ==
    /\ last.op = "save"
    /\ last.ret = "False"
    /\ max_clips >= 1
    /\ Len(clips) = max_clips
    /\ Len(captured) > max_clips

\* C2: with max_clips = N >= 0, after N+k non-duplicate captures from an
\* empty store the store is exactly the N newest records, newest first, and
\* no evicted Image record's blob file img_<id>.png exists.
C2_BoundedRetention ==
    (max_clips >= 0 /\ Len(captured) >= max_clips) =>
        /\ Len(clips) = max_clips
        /\ clips = SubSeq(captured, 1, max_clips)
        /\ \A i \in (max_clips + 1) .. Len(captured) :
              IsImage(captured[i]) => ~Exists(blobs, Filename(captured[i].id))

\* C3: a text capture returns Duplicate exactly when the head exists, is a
\* Text record and has the captured content; the same text captured twice
\* in a row is stored once; with max_clips = 2 the captures a, b, a leave
\* [a, b] with the third capture at the head.
C3_TextDuplicate ==
    /\ (last.op = "save" /\ last.kind = "text") =>
          (last.ret = "False" <=> HeadIsText(prev.clips, last.data))
    /\ (last.op = "save" /\ last.kind = "text" /\ HeadIsText(prev.clips, last.data)) =>
          clips = prev.clips
    /\ (/\ max_clips = 2
        /\ Len(captured) = 3
        /\ \A i \in 1 .. 3 : captured[i].type = "text"
        /\ captured[1].content = captured[3].content
        /\ captured[2].content # captured[1].content) =>
          clips = << captured[1], captured[2] >>

\* The third capture a of a, b, a was stored although a is in the history.
C3_Witness ==
    /\ max_clips = 2
    /\ last.op = "save"
    /\ last.kind = "text"
    /\ last.ret = "True"
    /\ Len(captured) = 3
    /\ captured[1].type = "text"
    /\ captured[3].type = "text"
    /\ captured[1].content = captured[3].content
    /\ prev.clips[2] = captured[3]

\* C4: an image capture returns Duplicate exactly when the head exists, is
\* an Image record and its stored blob has as many bytes as the captured
\* data; the content of the blob plays no part.
C4_ImageDuplicate ==
    (last.op = "save" /\ last.kind = "image") =>
        (last.ret = "False"
            <=> HeadBlobHasLen(prev.clips, prev.blobs, Len(last.data)))

\* An image was suppressed by a head blob of equal length, different bytes.
C4_Witness ==
    /\ last.op = "save"
    /\ last.kind = "image"
    /\ last.ret = "False"
    /\ prev.blobs[prev.clips[1].filename] # last.data

\* C5: a capture that returns Duplicate leaves the index and the blob files
\* as they were.
C5_DuplicateNoMutation ==
    (last.op = "save" /\ last.ret = "False") =>
        (clips = prev.clips /\ blobs = prev.blobs)

\* A Duplicate image capture made in the second of the head record, whose
\* blob file has the name the capture would have written.
C5_Witness ==
    /\ last.op = "save"
    /\ last.kind = "image"
    /\ last.ret = "False"
    /\ clips[1].id = now
    /\ blobs[Filename(now)] # last.data

\* C6: every Image record of the persisted sequence names a blob file that
\* exists.
C6_ImageBlobExists ==
    \A i \in DOMAIN clips :
        IsImage(clips[i]) => Exists(blobs, clips[i].filename)

\* C7: every blob file is the file of some Image record of the persisted
\* sequence.
C7_NoOrphans ==
    \A f \in DOMAIN blobs :
        \E i \in DOMAIN clips : IsImage(clips[i]) /\ clips[i].filename = f

\* The last capture evicted an Image record whose blob existed, while
\* another blob stays on disk.
C7_Witness ==
    /\ last.op = "save"
    /\ last.ret = "True"
    /\ prev.clips # << >>
    /\ Len(clips) = Len(prev.clips)
    /\ IsImage(prev.clips[Len(prev.clips)])
    /\ Exists(prev.blobs, prev.clips[Len(prev.clips)].filename)
    /\ ~Exists(blobs, prev.clips[Len(prev.clips)].filename)
    /\ blobs # NoFiles

\* C8: after clear_all_clips the index is empty and no blob file of a
\* record that was in the index remains.
C8_ClearAll ==
    last.op = "clear" =>
        /\ clips = << >>
        /\ \A i \in DOMAIN prev.clips :
              IsImage(prev.clips[i]) => ~Exists(blobs, prev.clips[i].filename)

\* A clear of a store that held a Text record and an Image record with
\* its blob.
C8_Witness ==
    /\ last.op = "clear"
    /\ \E i \in DOMAIN prev.clips :
          IsImage(prev.clips[i]) /\ Exists(prev.blobs, prev.clips[i].filename)
    /\ \E i \in DOMAIN prev.clips : ~IsImage(prev.clips[i])

\* C20: no two adjacent records of the persisted sequence are both Text
\* records with the same content.
C20_NoAdjacentEqualText ==
    \A i \in 1 .. (Len(clips) - 1) :
        ~(/\ clips[i].type = "text"
          /\ clips[i + 1].type = "text"
          /\ clips[i].content = clips[i + 1].content)

\* A text capture equal to the head of a store of two or more records was
\* suppressed.
C20_Witness ==
    /\ last.op = "save"
    /\ last.kind = "text"
    /\ last.ret = "False"
    /\ Len(clips) >= 2
    /\ clips[1].content = last.data

(***************************************************************************)
(* Properties of the capture entry points.                                 *)
(***************************************************************************)
\* C9: the hotkey capture and the menu capture are serialized, so when both
\* have returned True and max_clips leaves room for two records, both
\* records are in the persisted index.
C9_Serialized ==
    (/\ \A t \in Threads : pc[t] = "done" /\ loc[t].ret = "True"
     /\ max_clips >= 2) =>
        Len(clips) = 2

\* C18: in every state of a capture taken step by step (blob write and
\* insert, prune, persist) each Image record of the persisted index names a
\* blob file that has been written before.
C18_WriteThenLink ==
    \A i \in DOMAIN clips : IsImage(clips[i]) => clips[i].filename \in written

\* An Image capture between its blob write and its index write: the file is
\* on disk and no record of the index names it yet.
C18_Witness ==
    \E t \in Threads :
        /\ pc[t] = "persist"
        /\ loc[t].kind = "image"
        /\ Filename(loc[t].ts) \in written
        /\ Exists(blobs, Filename(loc[t].ts))
        /\ \A i \in DOMAIN clips :
              IsImage(clips[i]) => clips[i].filename # Filename(loc[t].ts)

(***************************************************************************)
(* Properties of the floating window.                                      *)
(***************************************************************************)
\* C10: the window is Hidden or Showing(id); toggle_clip(r) takes Hidden to
\* Showing(r.id), Showing(r.id) to Hidden and any other Showing(x) to
\* Showing(r.id); hide leaves it Hidden.
C10_ToggleStateMachine ==
    /\ visible => (panel /\ current_clip_id = current_clip.id)
    /\ last.op = "toggle" =>
          IF prev.visible /\ prev.current_clip_id = last.data.id
          THEN ~visible
          ELSE visible /\ current_clip_id = last.data.id
    /\ last.op \in {"cancel", "clear"} => ~visible

\* A click on another clip while one is showing switched the window to it.
C10_Witness ==
    /\ last.op = "toggle"
    /\ prev.visible
    /\ prev.current_clip_id # last.data.id
    /\ visible
    /\ current_clip_id = last.data.id

(***************************************************************************)
(* Properties of preview and copy-back.                                    *)
(***************************************************************************)
InStore(r) == \E i \in DOMAIN clips : clips[i] = r

\* C11: after a copy message the record the handler resolved is the one on
\* display (its id is the window's, its document is the one loaded), and
\* the pasteboard holds that record's content (Text) or the bytes of that
\* record's blob file (Image, file present).
C11_CopyActsOnShown ==
    last.op = "copy" =>
        /\ current_clip.id = current_clip_id
        /\ html.time = current_clip.timestamp
        /\ current_clip.type = "text" =>
              /\ html = RenderTextPreview(current_clip.content,
                                          current_clip.timestamp)
              /\ pasteboard = Contents("text", current_clip.content)
        /\ current_clip.type = "image" =>
              /\ html.doc = "image"
              /\ Exists(blobs, current_clip.filename) =>
                    pasteboard = Contents("image", blobs[current_clip.filename])

\* Copy pressed right after a click that replaced another record on display:
\* the pasteboard changed to the content of the record shown now.
C11_Witness ==
    /\ last.op = "copy"
    /\ last.kind = "toggle"
    /\ prev.visible
    /\ prev.current_clip_id \notin {NoClipId, current_clip_id}
    /\ current_clip.type = "text"
    /\ pasteboard = Contents("text", current_clip.content)
    /\ pasteboard # prev.pasteboard

\* C12: after a copy message for a record still in the store, the
\* pasteboard holds the data passed to the capture that created the record.
C12_RoundTrip ==
    (last.op = "copy" /\ InStore(current_clip)) =>
        \E j \in DOMAIN captured :
            /\ captured[j] = current_clip
            /\ pasteboard = Contents(current_clip.type, sources[j])

\* C13: a copy message for an Image record whose blob file is missing
\* leaves the pasteboard as it was.
C13_MissingBlobCopyIsNoOp ==
    (/\ last.op = "copy"
     /\ IsImage(current_clip)
     /\ ~Exists(blobs, current_clip.filename)) =>
        pasteboard = prev.pasteboard

\* C14: a click that shows an Image record whose blob file does not exist
\* loads the placeholder naming the filename, and leaves the index and the
\* blob files as they were.
C14_MissingBlobPlaceholder ==
    (/\ last.op = "toggle"
     /\ visible
     /\ IsImage(last.data)
     /\ ~Exists(blobs, last.data.filename)) =>
        /\ html = [doc |-> "not_found", body |-> last.data.filename, time |-> 0]
        /\ ~HasCopyButton(html)
        /\ clips = prev.clips
        /\ blobs = prev.blobs

\* An Image record of the store whose blob file is gone was clicked and is
\* on display.
C14_Witness ==
    /\ last.op = "toggle"
    /\ visible
    /\ IsImage(last.data)
    /\ InStore(last.data)
    /\ ~Exists(blobs, last.data.filename)
    /\ html.doc = "not_found"

(***************************************************************************)
(* Properties of the index file under failures.                            *)
(***************************************************************************)
\* C15: when the write of save_clips has failed, the index file is a whole
\* document holding the sequence it held before the call.
C15_AtomicReplace ==
    last.ret = "OSError" => (~torn /\ clips = prev.clips)

\* C16: a capture or a clear-all that finds the index file unparsable ends
\* with the load error, and leaves the file, the blob files and the menu
\* as they were.
C16_LoadFailure ==
    (last.op \in {"save", "clear"} /\ prev.torn) =>
        /\ last.ret = "JSONDecodeError"
        /\ torn
        /\ clips = prev.clips
        /\ blobs = prev.blobs

\* A clear-all met an unparsable index while blob files were on disk.
C16_Witness ==
    /\ last.op = "clear"
    /\ last.ret = "JSONDecodeError"
    /\ prev.torn
    /\ blobs # NoFiles
    /\ wpc = "idle"

(***************************************************************************)
(* Properties of a render that runs beside a capture.                      *)
(***************************************************************************)
\* C19: a click returns with the image document or the placeholder loaded,
\* never with an error from render_image_preview.
C19_RenderTolerates ==
    last.op = "toggle" => last.ret # "FileNotFoundError"

(***************************************************************************)
(* Properties of relative_time.                                            *)
(***************************************************************************)
rt_diff == rt.now - rt.timestamp

\* C17: the label is "just now" below 60 s, "N min ago" (N = diff div 60)
\* below 3600 s, "N hr ago" for N = 1 and "N hrs ago" for N > 1
\* (N = diff div 3600) below 86400 s, "yesterday" below 172800 s and
\* "N days ago" (N = diff div 86400) from there on; each lower boundary
\* belongs to the later bucket.
C17_RelativeTime ==
    rt # NoLabel =>
        /\ rt_diff < 60 => rt.label = << "just now" >>
        /\ (60 <= rt_diff /\ rt_diff < 3600) =>
              rt.label = << rt_diff \div 60, " min ago" >>
        /\ (3600 <= rt_diff /\ rt_diff < 7200) =>
              rt.label = << 1, " hr", "", " ago" >>
        /\ (7200 <= rt_diff /\ rt_diff < 86400) =>
              rt.label = << rt_diff \div 3600, " hr", "s", " ago" >>
        /\ (86400 <= rt_diff /\ rt_diff < 172800) =>
              rt.label = << "yesterday" >>
        /\ rt_diff >= 172800 =>
              rt.label = << rt_diff \div 86400, " days ago" >>

\* A clip exactly 60 seconds old was labelled "1 min ago".
C17_Witness == rt_diff = 60 /\ rt.label = << 1, " min ago" >>
====
